---- MODULE Spec2Model ----
(***************************************************************************)
(* Model of pr-conventional-commit-labeler/action/labels.py: the label     *)
(* configuration, the matcher lookup, the commit scan and label            *)
(* resolution, and the run of Labels.run against the GitHub gateway.       *)
(* Strings are tuples of one-character strings, so that prefix matching    *)
(* and substring tests are computed, not assumed.                          *)
(***************************************************************************)
EXTENDS Integers, Sequences, FiniteSets, TLC

VARIABLES
    cclc,                \* the parsed label configuration document
    pull_request,        \* the --pull-request argument of this run
    prLabels,            \* platform: the label names on the pull request
    prCommits,           \* platform: the commit messages of the pull request
    pc,                  \* position of the run
    run,                 \* number of the current run
    lookup,              \* list of (matcher, label) pairs
    original_pr_labels,  \* labels fetched at the start of the run
    unique_labels,       \* fetched labels outside the configured names
    commits,             \* fetched commit messages
    matched,             \* `labels` after the scan loop, before the sort
    labels,              \* `labels` as handed to set_all
    calls,               \* gateway calls of this run, in order, with success
    error,               \* "" or the exception that ended the run
    labels_before,       \* the pull request's labels when this run started
    prev_ok              \* the previous run ended with exit code 0

vars == <<cclc, pull_request, prLabels, prCommits, pc, run, lookup,
          original_pr_labels, unique_labels, commits, matched, labels,
          calls, error, labels_before, prev_ok>>

(***************************************************************************)
(* Bounds                                                                  *)
(***************************************************************************)
MaxGroups == 2
MaxCommits == 2
MaxRuns == 2

(***************************************************************************)
(* Strings                                                                 *)
(***************************************************************************)
S_feat == <<"f", "e", "a", "t">>
S_fix == <<"f", "i", "x">>
S_add == <<"a", "d", "d">>
S_doc == <<"d", "o", "c">>
S_nix == <<"n", "i", "x">>
S_ix == <<"i", "x">>
S_empty == <<>>

\* "feat: a", "FIX -b", "fix|c"
M_feat == <<"f", "e", "a", "t", ":", " ", "a">>
M_fix == <<"F", "I", "X", " ", "-", "b">>
M_pipe == <<"f", "i", "x", "|", "c">>
\* "feature: s", "feat-123: add x", "preface feat: x"
M_feature == <<"f", "e", "a", "t", "u", "r", "e", ":", " ", "s">>
M_feat_dash == <<"f", "e", "a", "t", "-", "1", "2", "3", ":", " ", "a", "d", "d", " ", "x">>
M_preface == <<"p", "r", "e", "f", "a", "c", "e", " ", "f", "e", "a", "t", ":", " ", "x">>

\* re.I: letters compare by their lower-case form
Lower(ch) ==
    CASE ch = "F" -> "f"
      [] ch = "I" -> "i"
      [] ch = "X" -> "x"
      [] ch = "E" -> "e"
      [] ch = "A" -> "a"
      [] ch = "T" -> "t"
      [] ch = "D" -> "d"
      [] OTHER -> ch

\* \s
Whitespace == {" ", "\t", "\n"}

\* the character class [:|-]
Separators == {":", "|", "-"}

\* Python's `s in t` for strings
IsSubstring(s, t) ==
    \E i \in 0..(Len(t) - Len(s)) : SubSeq(t, i + 1, i + Len(s)) = s

\* the literal prefix of the pattern, compared case-insensitively at position 0
PrefixMatches(message, c) ==
    /\ Len(c) >= Len(message)
    /\ \A i \in 1..Len(message) : Lower(c[i]) = Lower(message[i])

\* re.compile(rf'{message}\s?[:|-]', flags=re.I).match(c)
Matches(message, c) ==
    /\ PrefixMatches(message, c)
    /\ LET n == Len(message) IN
         \/ Len(c) >= n + 1 /\ c[n + 1] \in Separators
         \/ Len(c) >= n + 2 /\ c[n + 1] \in Whitespace /\ c[n + 2] \in Separators

(***************************************************************************)
(* Commit-type registry (collector.commit_types()) and the configuration   *)
(***************************************************************************)
G_added == "Added"
G_fixes == "Bug Fixes"
G_unknown == "Security"

commit_types ==
    << [message |-> S_feat, group |-> G_added],
       [message |-> S_fix, group |-> G_fixes],
       [message |-> S_add, group |-> G_added] >>

changelog_groups == [i \in 1..Len(commit_types) |-> commit_types[i].group]

expressions ==
    [i \in 1..Len(commit_types) |->
        [group |-> commit_types[i].group, matcher |-> commit_types[i].message]]

Range(s) == {s[i] : i \in 1..Len(s)}

\* cclc.get("disable_on")
HasDisableOn(c) == "disable_on" \in DOMAIN c

\* truthiness of disable_on: neither None nor the empty string
DisableOnTruthy(c) == HasDisableOn(c) /\ c.disable_on # S_empty

labels_key(c) == {c.labels[i].name : i \in 1..Len(c.labels)}

only_highest(c) == c.only_highest_priority

\* x.get("priority", 0)
Priority(l) == IF "priority" \in DOMAIN l THEN l.priority ELSE 0


Min(S) == CHOOSE x \in S : \A y \in S : x <= y

BoundedSeq(S, n) == UNION {[1..k -> S] : k \in 0..n}

(***************************************************************************)
(* Validation of the groups (labels.py 88-95)                              *)
(***************************************************************************)
ValidateGroupsOnly(c) ==
    \A i \in 1..Len(c.groups) : c.groups[i].group \in Range(changelog_groups)

\* TRUE when no LabelsError is raised by the verification loop
Validate(c) ==
    \A i \in 1..Len(c.groups) :
        /\ c.groups[i].group \in Range(changelog_groups)
        /\ c.groups[i].label \in labels_key(c)

(***************************************************************************)
(* The lookup (labels.py 96-111)                                           *)
(***************************************************************************)
\* next(x for (g, x) in expressions if g == g_name)
FirstMatcher(g_name) ==
    expressions[Min({i \in 1..Len(expressions) : expressions[i].group = g_name})].matcher

\* the inner loop over labels, with its break
LookupEntry(c, g) ==
    LET hits == {j \in 1..Len(c.labels) : c.labels[j].name = g.label} IN
    IF hits = {} THEN <<>>
    ELSE << [matcher |-> FirstMatcher(g.group), label |-> c.labels[Min(hits)]] >>

RECURSIVE LookupFrom(_, _)
LookupFrom(c, i) ==
    IF i > Len(c.groups) THEN <<>>
    ELSE LookupEntry(c, c.groups[i]) \o LookupFrom(c, i + 1)

\* a lookup built label by label instead of group by group
RECURSIVE LookupByLabelFrom(_, _)
LookupByLabelFrom(c, j) ==
    IF j > Len(c.labels) THEN <<>>
    ELSE LET gs == SelectSeq(c.groups, LAMBDA g : g.label = c.labels[j].name) IN
         [k \in 1..Len(gs) |-> [matcher |-> FirstMatcher(gs[k].group), label |-> c.labels[j]]]
            \o LookupByLabelFrom(c, j + 1)

LookupByLabel(c) == LookupByLabelFrom(c, 1)

Lookup(c) == LookupFrom(c, 1)

(***************************************************************************)
(* The scan and the resolution (labels.py 129-151)                         *)
(***************************************************************************)
DisabledExact(c, original) ==
    DisableOnTruthy(c) /\ c.disable_on \in original

\* disable_on and any(disable_on in x for x in original_pr_labels)
Disabled(c, original) ==
    DisableOnTruthy(c) /\ \E x \in original : IsSubstring(c.disable_on, x)

UniqueLabels(original, c) == original \ labels_key(c)

\* the inner loop over commits, with its break
RECURSIVE ScanCommits(_, _, _)
ScanCommits(entry, cs, j) ==
    IF j > Len(cs) THEN <<>>
    ELSE IF Matches(entry.matcher, cs[j]) THEN <<entry.label>>
    ELSE ScanCommits(entry, cs, j + 1)

RECURSIVE ScanFrom(_, _, _)
ScanFrom(lk, cs, i) ==
    IF i > Len(lk) THEN <<>>
    ELSE ScanCommits(lk[i], cs, 1) \o ScanFrom(lk, cs, i + 1)

Scan(lk, cs) == ScanFrom(lk, cs, 1)

\* sorted(labels, key=priority, reverse=True): stable, descending
RECURSIVE InsertByPriority(_, _)
InsertByPriority(s, x) ==
    IF s = <<>> THEN <<x>>
    ELSE IF Priority(Head(s)) >= Priority(x)
         THEN <<Head(s)>> \o InsertByPriority(Tail(s), x)
         ELSE <<x>> \o s

RECURSIVE InsertBeforeEqual(_, _)
InsertBeforeEqual(s, x) ==
    IF s = <<>> THEN <<x>>
    ELSE IF Priority(Head(s)) > Priority(x)
         THEN <<Head(s)>> \o InsertBeforeEqual(Tail(s), x)
         ELSE <<x>> \o s

RECURSIVE SortUnstableFrom(_, _, _)
SortUnstableFrom(ls, i, acc) ==
    IF i > Len(ls) THEN acc
    ELSE SortUnstableFrom(ls, i + 1, InsertBeforeEqual(acc, ls[i]))

RECURSIVE SortFrom(_, _, _)
SortFrom(ls, i, acc) ==
    IF i > Len(ls) THEN acc
    ELSE SortFrom(ls, i + 1, InsertByPriority(acc, ls[i]))

\* a descending sort that reverses the order of equal priorities
SortedReversingTies(ls) == SortUnstableFrom(ls, 1, <<>>)

SortedByPriority(ls) == SortFrom(ls, 1, <<>>)

\* labels[:1]
FirstOnly(ls) == IF ls = <<>> THEN <<>> ELSE <<Head(ls)>>

AlwaysFirst(ls, flag) == FirstOnly(ls)

\* if only_highest: labels = labels[:1]
KeepHighest(ls, flag) == IF flag THEN FirstOnly(ls) ELSE ls

NamesOnly(ls, unique) == {ls[i].name : i \in 1..Len(ls)}

\* set(l["name"] for l in labels), then labels.update(unique_labels)
ResolvedSet(ls, unique) == {ls[i].name : i \in 1..Len(ls)} \cup unique

Resolve(c, m, unique) ==
    ResolvedSet(KeepHighest(SortedByPriority(m), only_highest(c)), unique)


(***************************************************************************)
(* Inputs                                                                  *)
(***************************************************************************)
LabelDefs(n) == {[name |-> n]} \cup {[name |-> n, priority |-> p] : p \in {0, 1}}

LabelLists ==
    {<<>>}
    \cup {<<a>> : a \in LabelDefs(S_feat) \cup LabelDefs(S_fix)}
    \cup {<<a, b>> : a \in LabelDefs(S_feat), b \in LabelDefs(S_fix)}

GroupMappings == [group : {G_added, G_fixes, G_unknown}, label : {S_feat, S_fix, S_doc}]

\* configurations of the resolution: every shape that passes the verification
ResolveConfigs ==
    {c \in [labels : LabelLists,
            groups : BoundedSeq(GroupMappings, MaxGroups),
            only_highest_priority : BOOLEAN] : Validate(c)}

\* configurations of the runs: valid and invalid groups, every form of disable_on
RunGroups ==
    BoundedSeq(GroupMappings, 1)
    \cup {<< [group |-> G_added, label |-> S_feat], [group |-> G_fixes, label |-> S_fix] >>}

RunConfigsPlain ==
    [labels : {<< [name |-> S_feat], [name |-> S_fix, priority |-> 1] >>},
     groups : RunGroups,
     only_highest_priority : BOOLEAN]

RunConfigs ==
    RunConfigsPlain
    \cup {c @@ [disable_on |-> d] : c \in RunConfigsPlain, d \in {S_empty, S_ix}}

PrLabelSets == SUBSET {S_fix, S_nix}

CommitMessages == {M_feat, M_fix, M_pipe}

CommitLists == BoundedSeq(CommitMessages, MaxCommits)

PullRequests == {"", "7"}

(***************************************************************************)
(* Labels.run, driven by main (labels.py 65-166, 169-184)                  *)
(***************************************************************************)
Call(op, ok) == [op |-> op, ok |-> ok]

StartState ==
    /\ pull_request = ""
    /\ run = 1
    /\ lookup = <<>>
    /\ original_pr_labels = {}
    /\ unique_labels = {}
    /\ commits = <<>>
    /\ matched = <<>>
    /\ labels = {}
    /\ calls = <<>>
    /\ error = ""
    /\ labels_before = prLabels
    /\ prev_ok = FALSE

Init ==
    /\ cclc \in RunConfigs
    /\ prLabels \in PrLabelSets
    /\ prCommits \in CommitLists
    /\ pc = "idle"
    /\ StartState

\* main builds Labels from the arguments; run parses and verifies the
\* configuration and builds the lookup (labels.py 66-111)
Start ==
    /\ pc = "idle"
    /\ \E pr \in PullRequests : pull_request' = pr
    /\ IF Validate(cclc)
       THEN /\ lookup' = Lookup(cclc)
            /\ pc' = "api"
            /\ error' = ""
       ELSE /\ lookup' = <<>>
            /\ pc' = "exit"
            /\ error' = "LabelsError"
    /\ UNCHANGED <<cclc, prLabels, prCommits, run, original_pr_labels, unique_labels,
                   commits, matched, labels, calls, labels_before, prev_ok>>

\* async with self.api: the pull request identifier is required (113-115)
EnterApi ==
    /\ pc = "api"
    /\ IF pull_request = ""
       THEN pc' = "exit" /\ error' = "LabelsError"
       ELSE pc' = "get_labels" /\ error' = ""
    /\ UNCHANGED <<cclc, pull_request, prLabels, prCommits, run, lookup,
                   original_pr_labels, unique_labels, commits, matched, labels,
                   calls, labels_before, prev_ok>>

\* api.labels.get_all, the disable_on test and unique_labels (116-131)
FetchLabels ==
    /\ pc = "get_labels"
    /\ \E ok \in BOOLEAN :
        /\ calls' = Append(calls, Call("get_all", ok))
        /\ IF ~ok
           THEN /\ pc' = "exit"
                /\ error' = "HTTPError"
                /\ UNCHANGED <<original_pr_labels, unique_labels>>
           ELSE /\ original_pr_labels' = prLabels
                /\ error' = ""
                /\ IF Disabled(cclc, prLabels)
                   THEN pc' = "exit" /\ UNCHANGED unique_labels
                   ELSE pc' = "get_commits" /\ unique_labels' = UniqueLabels(prLabels, cclc)
    /\ UNCHANGED <<cclc, pull_request, prLabels, prCommits, run, lookup,
                   commits, matched, labels, labels_before, prev_ok>>

\* api.pull_requests.commits, the scan, the sort and the final set (132-152)
FetchCommits ==
    /\ pc = "get_commits"
    /\ \E ok \in BOOLEAN :
        /\ calls' = Append(calls, Call("commits", ok))
        /\ IF ~ok
           THEN /\ pc' = "exit"
                /\ error' = "HTTPError"
                /\ UNCHANGED <<commits, matched, labels>>
           ELSE /\ commits' = prCommits
                /\ matched' = Scan(lookup, prCommits)
                /\ labels' = Resolve(cclc, Scan(lookup, prCommits), unique_labels)
                /\ pc' = "delete"
                /\ error' = ""
    /\ UNCHANGED <<cclc, pull_request, prLabels, prCommits, run, lookup,
                   original_pr_labels, unique_labels, labels_before, prev_ok>>

\* a delete whose status is never looked at
DeleteAllUnchecked ==
    /\ pc = "delete"
    /\ \E ok \in BOOLEAN :
        /\ calls' = Append(calls, Call("delete", ok))
        /\ prLabels' = IF ok THEN {} ELSE prLabels
        /\ pc' = "set"
        /\ error' = ""
    /\ UNCHANGED <<cclc, pull_request, prCommits, run, lookup, original_pr_labels,
                   unique_labels, commits, matched, labels, labels_before, prev_ok>>

\* api.labels._client.delete(u); response.raise_for_status() (161-163)
DeleteAll ==
    /\ pc = "delete"
    /\ \E ok \in BOOLEAN :
        /\ calls' = Append(calls, Call("delete", ok))
        /\ IF ok
           THEN prLabels' = {} /\ pc' = "set" /\ error' = ""
           ELSE prLabels' = prLabels /\ pc' = "exit" /\ error' = "HTTPError"
    /\ UNCHANGED <<cclc, pull_request, prCommits, run, lookup, original_pr_labels,
                   unique_labels, commits, matched, labels, labels_before, prev_ok>>

\* api.labels.set_all adds the labels to those on the pull request (164-166)
SetAll ==
    /\ pc = "set"
    /\ \E ok \in BOOLEAN :
        /\ calls' = Append(calls, Call("set_all", ok))
        /\ prLabels' = IF ok THEN prLabels \cup labels ELSE prLabels
        /\ error' = IF ok THEN "" ELSE "HTTPError"
        /\ pc' = "exit"
    /\ UNCHANGED <<cclc, pull_request, prCommits, run, lookup, original_pr_labels,
                   unique_labels, commits, matched, labels, labels_before, prev_ok>>

\* sys.exit(0) after run returned, sys.exit(1) on LabelsError, 1 on a traceback
ExitCode == IF error = "" THEN 0 ELSE 1

\* the action is triggered again on the same pull request
NextRun ==
    /\ pc = "exit"
    /\ run < MaxRuns
    /\ run' = run + 1
    /\ pc' = "idle"
    /\ prev_ok' = (ExitCode = 0)
    /\ labels_before' = prLabels
    /\ pull_request' = ""
    /\ lookup' = <<>>
    /\ original_pr_labels' = {}
    /\ unique_labels' = {}
    /\ commits' = <<>>
    /\ matched' = <<>>
    /\ labels' = {}
    /\ calls' = <<>>
    /\ error' = ""
    /\ UNCHANGED <<cclc, prLabels, prCommits>>

Next ==
    \/ Start
    \/ EnterApi
    \/ FetchLabels
    \/ FetchCommits
    \/ DeleteAll
    \/ SetAll
    \/ NextRun

Spec == Init /\ [][Next]_vars

(***************************************************************************)
(* The resolution as a function of configuration, labels and commits       *)
(***************************************************************************)
InitResolve ==
    /\ cclc \in ResolveConfigs
    /\ prLabels \in PrLabelSets
    /\ prCommits \in CommitLists
    /\ pc = "inputs"
    /\ StartState

\* labels.py 96-111 applied to the configuration
ApplyLookup ==
    /\ pc = "inputs"
    /\ lookup' = Lookup(cclc)
    /\ pc' = "lookup"
    /\ UNCHANGED <<cclc, pull_request, prLabels, prCommits, run, original_pr_labels,
                   unique_labels, commits, matched, labels, calls, error,
                   labels_before, prev_ok>>

\* labels.py 129-151 applied to the labels and commits of the pull request
ApplyResolve ==
    /\ pc = "lookup"
    /\ original_pr_labels' = prLabels
    /\ unique_labels' = UniqueLabels(prLabels, cclc)
    /\ commits' = prCommits
    /\ matched' = Scan(lookup, prCommits)
    /\ labels' = Resolve(cclc, Scan(lookup, prCommits), UniqueLabels(prLabels, cclc))
    /\ pc' = "resolved"
    /\ UNCHANGED <<cclc, pull_request, prLabels, prCommits, run, lookup, calls, error,
                   labels_before, prev_ok>>

NextResolve == ApplyLookup \/ ApplyResolve

SpecResolve == InitResolve /\ [][NextResolve]_vars


(***************************************************************************)
(* Properties                                                              *)
(***************************************************************************)
GatewayOrder == <<"get_all", "commits", "delete", "set_all">>

\* the run got past the commit fetch, so `labels` is the resolved set
ResolutionReached == pc = "resolved" \/ Call("commits", TRUE) \in Range(calls)

\* current labels outside the configured label names
Unmanaged(current) == current \ {cclc.labels[i].name : i \in 1..Len(cclc.labels)}

\* indices of the lookup entries whose pattern matches at least one commit
MatchingEntries ==
    {k \in 1..Len(lookup) : \E j \in 1..Len(commits) : Matches(lookup[k].matcher, commits[j])}

MatchedNames == {lookup[k].label.name : k \in MatchingEntries}

\* C1: once a run has resolved its labels, the resolved set (the argument of
\* set_all) contains every fetched label that is not a configured label name.
C1_UniqueLabelsKept ==
    ResolutionReached => Unmanaged(original_pr_labels) \subseteq labels

C1_Witness ==
    /\ pc = "resolved"
    /\ Unmanaged(original_pr_labels) # {}
    /\ MatchedNames # {}
    /\ Unmanaged(original_pr_labels) \subseteq labels

\* a groups entry names a group outside the commit types or a label outside
\* the configured label names
InvalidReference(c) ==
    \E i \in 1..Len(c.groups) :
        \/ \A t \in 1..Len(commit_types) : commit_types[t].group # c.groups[i].group
        \/ \A j \in 1..Len(c.labels) : c.labels[j].name # c.groups[i].label

\* C2: with an unknown group or label in `groups` the run ends with
\* LabelsError and exit code 1 and never calls the gateway: no fetch, no
\* delete, no set_all, and the labels of the pull request stay as they were.
C2_InvalidConfigFails ==
    InvalidReference(cclc) =>
        /\ calls = <<>>
        /\ prLabels = labels_before
        /\ pc \in {"idle", "exit"}
        /\ pc = "exit" => error = "LabelsError" /\ ExitCode = 1

C2_Witness ==
    /\ pc = "exit"
    /\ error = "LabelsError"
    /\ calls = <<>>
    /\ pull_request # ""
    /\ \E i \in 1..Len(cclc.groups) :
          /\ cclc.groups[i].group = G_added
          /\ cclc.groups[i].label = S_doc

\* the fetched labels contain the configured, non-empty sentinel
SentinelPresent ==
    /\ Call("get_all", TRUE) \in Range(calls)
    /\ "disable_on" \in DOMAIN cclc
    /\ cclc.disable_on # <<>>
    /\ \E x \in original_pr_labels : IsSubstring(cclc.disable_on, x)

C4_ResolvedSetExact ==
    pc = "resolved" =>
        /\ ~cclc.only_highest_priority =>
              labels = MatchedNames \cup Unmanaged(original_pr_labels)
        /\ \A i \in 1..Len(cclc.labels) :
              cclc.labels[i].name \in labels => cclc.labels[i].name \in MatchedNames
        /\ MatchedNames = {} => labels = Unmanaged(original_pr_labels)

C4_Witness ==
    /\ pc = "resolved"
    /\ ~cclc.only_highest_priority
    /\ Cardinality(MatchedNames) = 1
    /\ Len(matched) = 2
    /\ Unmanaged(original_pr_labels) # {}
    /\ \E i \in 1..Len(cclc.labels) :
          cclc.labels[i].name \in original_pr_labels /\ cclc.labels[i].name \notin labels
    /\ labels = MatchedNames \cup Unmanaged(original_pr_labels)

\* priorities of the matching entries, a missing priority counting as 0
EntryPriority(k) ==
    IF "priority" \in DOMAIN lookup[k].label THEN lookup[k].label.priority ELSE 0

\* the first declared among the matching entries of maximal priority
TopEntry ==
    CHOOSE k \in MatchingEntries :
        /\ \A m \in MatchingEntries : EntryPriority(k) >= EntryPriority(m)
        /\ \A m \in MatchingEntries : EntryPriority(m) = EntryPriority(k) => k <= m

\* C5: with only_highest_priority and at least one matching entry, the
\* resolved set minus the unmanaged labels is the single name of the matching
\* label of maximal priority (missing priority = 0), the first declared
\* mapping winning a tie.
C5_OnlyHighest ==
    (pc = "resolved" /\ cclc.only_highest_priority /\ MatchingEntries # {}) =>
        labels \ Unmanaged(original_pr_labels) = {lookup[TopEntry].label.name}

C5_Witness ==
    /\ pc = "resolved"
    /\ cclc.only_highest_priority
    /\ \E k, m \in MatchingEntries :
          /\ k < m
          /\ EntryPriority(k) = EntryPriority(m)
          /\ "priority" \in DOMAIN lookup[m].label
          /\ "priority" \notin DOMAIN lookup[k].label
          /\ lookup[k].label.name # lookup[m].label.name
          /\ k = TopEntry
    /\ labels \ Unmanaged(original_pr_labels) = {lookup[TopEntry].label.name}

RECURSIVE SkipWhitespace(_, _)
SkipWhitespace(m, i) ==
    IF i <= Len(m) /\ m[i] \in {" ", "\t", "\n"} THEN SkipWhitespace(m, i + 1) ELSE i

\* m starts, ignoring case, with T, then optional whitespace, then ':' or '-'
ConventionalPrefix(T, m) ==
    /\ Len(m) >= Len(T)
    /\ \A i \in 1..Len(T) : Lower(m[i]) = Lower(T[i])
    /\ LET i == SkipWhitespace(m, Len(T) + 1) IN i <= Len(m) /\ m[i] \in {":", "-"}

\* C6: a matcher matches a commit message only if the message starts with the
\* keyword, optional whitespace and a ':' or '-'; "feat: a" and
\* "feat-123: add x" match feat, "feature: s" and "preface feat: x" do not.
C6_MatchOnlyConventionalPrefix ==
    /\ Matches(S_feat, M_feat) /\ Matches(S_feat, M_feat_dash)
    /\ ~Matches(S_feat, M_feature) /\ ~Matches(S_feat, M_preface)
    /\ pc = "resolved" =>
          \A k \in 1..Len(lookup) : \A j \in 1..Len(commits) :
              Matches(lookup[k].matcher, commits[j])
                  => ConventionalPrefix(lookup[k].matcher, commits[j])

\* C7: when a run has ended, however it ended, every label that was on the
\* pull request before the run and is not a configured label name is still
\* on the pull request.
C7_UnmanagedPreserved ==
    pc = "exit" => Unmanaged(labels_before) \subseteq prLabels

\* C8: the gateway calls of a run are a prefix of get_all, commits, delete,
\* set_all, each issued only after the previous one succeeded; without a
\* successful delete the labels of the pull request are untouched; and a run
\* ends with labels that are neither the original nor the resolved set only
\* after a successful delete followed by a failed set_all.
C8_CallOrder ==
    /\ Len(calls) <= Len(GatewayOrder)
    /\ \A i \in 1..Len(calls) :
          /\ calls[i].op = GatewayOrder[i]
          /\ i < Len(calls) => calls[i].ok
    /\ Call("delete", TRUE) \notin Range(calls) => prLabels = labels_before
    /\ (pc = "exit" /\ prLabels # labels_before /\ prLabels # labels) =>
          calls = <<Call("get_all", TRUE), Call("commits", TRUE),
                    Call("delete", TRUE), Call("set_all", FALSE)>>

C8_Witness ==
    /\ pc = "exit"
    /\ prLabels # labels_before
    /\ prLabels # labels
    /\ calls = <<Call("get_all", TRUE), Call("commits", TRUE),
                 Call("delete", TRUE), Call("set_all", FALSE)>>

\* C9: the lookup has one entry per groups entry, in declaration order, each
\* pairing a pattern of the entry's group with the configured label of the
\* entry's label name; and the scan records one label per matching entry,
\* however many commits match it.
C9_LookupPerGroup ==
    /\ pc \in {"lookup", "resolved"} =>
          /\ Len(lookup) = Len(cclc.groups)
          /\ \A i \in 1..Len(lookup) :
                /\ lookup[i].label.name = cclc.groups[i].label
                /\ \E j \in 1..Len(cclc.labels) : cclc.labels[j] = lookup[i].label
                /\ \E t \in 1..Len(commit_types) :
                      /\ commit_types[t].group = cclc.groups[i].group
                      /\ commit_types[t].message = lookup[i].matcher
    /\ pc = "resolved" =>
          LET hit == SelectSeq(lookup, LAMBDA e :
                         \E j \in 1..Len(commits) : Matches(e.matcher, commits[j]))
          IN matched = [i \in 1..Len(hit) |-> hit[i].label]

C9_Witness ==
    /\ pc = "resolved"
    /\ Len(cclc.groups) = 2
    /\ Len(cclc.labels) = 2
    /\ cclc.groups[1].label = cclc.labels[2].name
    /\ cclc.groups[2].label = cclc.labels[1].name
    /\ \E k \in 1..Len(lookup) :
          Cardinality({j \in 1..Len(commits) : Matches(lookup[k].matcher, commits[j])}) = 2
    /\ Len(matched) = 1

\* C10: when the run before this one ended with exit code 0, this run, with
\* the same configuration and commits and the labels that run left, ends with
\* the same labels on the pull request.
C10_SecondRunFixpoint ==
    (pc = "exit" /\ run >= 2 /\ prev_ok) => prLabels = labels_before

====
